---- MODULE Spec2Model ----
(***************************************************************************)
(* A model of the KeyClaim TypeScript SDK client (KeyClaimClient).         *)
(*                                                                         *)
(* JavaScript values are modelled as follows.                              *)
(*   - an object is a record that has exactly the properties that are      *)
(*     present; an absent property (undefined) is an absent field, so      *)
(*     `'valid' in data` is  "valid" \in DOMAIN data;                      *)
(*   - an optional value handed around is a set: {} for undefined, {v}     *)
(*     for the value v;                                                    *)
(*   - human-readable messages and codes are TLA+ strings ("" is the       *)
(*     empty string, which is falsy in JavaScript);                        *)
(*   - API keys, secrets, challenges, custom data and responses are        *)
(*     sequences of characters, so that prefix tests and concatenations    *)
(*     are computed;                                                       *)
(*   - a value that may be of several JavaScript types is a record with    *)
(*     one field named after the type: [str |-> s] or [obj |-> o].         *)
(***************************************************************************)
EXTENDS Integers, Sequences, FiniteSets, TLC

VARIABLES
    client,      \* the constructed client's fields, or NoClient
    ctor,        \* the last constructor call: its arguments and what it did
    pc,          \* per invocation slot: where the invocation is suspended
    op,          \* per slot: the public method invoked
    args,        \* per slot: the arguments of the invocation
    requests,    \* per slot: the remote requests issued so far, in order
    replies,     \* per slot: the transport's answers so far, in order
    steps,       \* per slot: the outcomes of the inner operations, in order
    result       \* per slot: what the invocation returned or threw

vars == <<client, ctor, pc, op, args, requests, replies, steps, result>>

----------------------------------------------------------------------------
(* Bounds of the model *)

\* invocation slots (callers that may hold an invocation)
NumProcs == 2

Procs == 1..NumProcs
\* the slots used by the sequential specification Spec
MainProcs == {1}

----------------------------------------------------------------------------
(* Program constants *)

DefaultTtl == 30

DefaultBaseUrl == "https://keyclaim.org"

KeyPrefix == <<"k", "c", "_">>

MsgCreateFailed == "Failed to create challenge"
MsgValidateFailed == "Failed to validate challenge"
MsgFlowFailed == "Validation flow failed"
MsgValidationFailed == "Validation failed"
MsgNetwork == "Network error: No response received from server"
MsgInvalidKey == "Invalid API key format. API key must start with \"kc_\""
MsgCustomRequired == "Custom data is required for custom method"
MsgUnknownMethod == "Unknown response method: "

UrlCreate == "/challenge/create"
UrlValidate == "/challenge/validate"

----------------------------------------------------------------------------
(* JavaScript helpers *)

\* the optional property f of object o
Prop(o, f) == IF f \in DOMAIN o THEN {o[f]} ELSE {}

\* the value of a present optional
The(opt) == CHOOSE v \in opt : TRUE

\* truthiness of an optional string: undefined and "" are falsy
TruthyStr(opt) == \E v \in opt : v # ""

\* truthiness of an optional character string
TruthySeq(opt) == \E v \in opt : Len(v) > 0

\* a || b on optional strings
OrStr(a, b) == IF TruthyStr(a) THEN a ELSE b

\* a record with the single field f when opt is present, the empty record otherwise
OptField(f, opt) == [x \in (IF opt = {} THEN {} ELSE {f}) |-> The(opt)]

\* the object {} : no property is present
EmptyObj == [x \in {} |-> TRUE]

Return(v) == [returned |-> v]
Throw(e) == [thrown |-> e]
NoOutcome == [pending |-> TRUE]

Returned(o) == "returned" \in DOMAIN o
Thrown(o) == "thrown" \in DOMAIN o

----------------------------------------------------------------------------
(* KeyClaimError and the error classification *)

KeyClaimError(message, code, statusCode) ==
    [name |-> "KeyClaimError", message |-> message]
        @@ OptField("code", code) @@ OptField("statusCode", statusCode)

TypeError(message) == [name |-> "TypeError", message |-> message]

IsKeyClaimError(e) == e.name = "KeyClaimError"

\* errorData?.f : the property f of the response body, undefined when the body
\* is missing or is a string
DataProp(response, f) ==
    IF "data" \in DOMAIN response /\ "obj" \in DOMAIN response.data
    THEN Prop(response.data.obj, f)
    ELSE {}

\* a plausible slip: the status of the response is not passed on
serverErrorNoStatus(error, defaultMessage) ==
    LET errorMessage == OrStr(DataProp(error.response, "error"),
                              OrStr(DataProp(error.response, "message"),
                                    Prop(error, "message")))
    IN  KeyClaimError(The(OrStr(errorMessage, {defaultMessage})),
                      DataProp(error.response, "error"), {})

\* the failure carries a response
serverError(error, defaultMessage) ==
    LET statusCode == error.response.status
        errorMessage == OrStr(DataProp(error.response, "error"),
                              OrStr(DataProp(error.response, "message"),
                                    Prop(error, "message")))
    IN  KeyClaimError(The(OrStr(errorMessage, {defaultMessage})),
                      DataProp(error.response, "error"),
                      {statusCode})

\* a plausible slip: the failure's own message is passed on when it has one
networkErrorOwnMessage(error) ==
    KeyClaimError(The(OrStr(Prop(error, "message"), {MsgNetwork})), {"network_error"}, {})

\* the failure carries a request and no response
networkError(error) == KeyClaimError(MsgNetwork, {"network_error"}, {})

\* a plausible slip: the default message is always used
unknownErrorDefaultOnly(error, defaultMessage) ==
    KeyClaimError(defaultMessage, {"unknown_error"}, {})

\* the failure carries neither
unknownError(error, defaultMessage) ==
    KeyClaimError(The(OrStr(Prop(error, "message"), {defaultMessage})),
                  {"unknown_error"}, {})

\* a plausible slip: the request is looked at before the response
handleErrorRequestFirst(error, defaultMessage) ==
    IF "request" \in DOMAIN error THEN networkError(error)
    ELSE IF "response" \in DOMAIN error THEN serverError(error, defaultMessage)
    ELSE unknownError(error, defaultMessage)

handleError(error, defaultMessage) ==
    IF "response" \in DOMAIN error THEN serverError(error, defaultMessage)
    ELSE IF "request" \in DOMAIN error THEN networkError(error)
    ELSE unknownError(error, defaultMessage)

----------------------------------------------------------------------------
(* Construction *)

startsWith(s, prefix) ==
    Len(s) >= Len(prefix) /\ SubSeq(s, 1, Len(prefix)) = prefix

\* a plausible slip: the prefix is looked for anywhere in the key
apiKeyContainsPrefix(apiKey) ==
    \E i \in 1..Len(apiKey) :
        i + Len(KeyPrefix) - 1 <= Len(apiKey)
        /\ SubSeq(apiKey, i, i + Len(KeyPrefix) - 1) = KeyPrefix

\* the negation of the constructor's guard  !apiKey || !apiKey.startsWith('kc_')
apiKeyAccepted(apiKey) == Len(apiKey) > 0 /\ startsWith(apiKey, KeyPrefix)

\* a plausible slip: the secret given is dropped
secretAlwaysApiKey(given, apiKey) == apiKey

\* secret || apiKey : the secret given when it is truthy, the API key otherwise
secretOrApiKey(given, apiKey) == IF TruthySeq(given) THEN The(given) ELSE apiKey

\* config is [str |-> apiKey] or [obj |-> [apiKey |-> .., secret |-> ..]] (secret
\* optional); secret is the optional second argument
Constructor(config, secret) ==
    LET isString == "str" \in DOMAIN config
        apiKey == IF isString THEN config.str ELSE config.obj.apiKey
        given == IF isString THEN secret ELSE Prop(config.obj, "secret")
        fields == [apiKey |-> apiKey,
                   baseUrl |-> DefaultBaseUrl,
                   secret |-> secretOrApiKey(given, apiKey)]
    IN  IF ~apiKeyAccepted(apiKey)
        THEN [outcome |-> Throw(KeyClaimError(MsgInvalidKey, {}, {})),
              axiosCreate |-> 0]
        ELSE [outcome |-> Return(fields @@
                  [axiosInstance |-> [baseURL |-> DefaultBaseUrl \o "/api",
                                      authorization |-> <<"Bearer ">> \o apiKey]]),
              axiosCreate |-> 1]

----------------------------------------------------------------------------
(* Response generation *)

\* hex digests are kept symbolic: the digest of a string is that string between
\* markers that occur in no input, which makes distinct inputs give distinct
\* digests and keeps concatenation of the inputs visible
Sha256Hex(data) == <<"sha256(">> \o data \o <<")">>

HmacSha256Hex(key, data) == <<"hmac-sha256(">> \o key \o <<",">> \o data \o <<")">>

\* JSON.stringify of an object given as a sequence of <<key, value>> pairs of
\* strings, in the order of its properties
RECURSIVE JsonMembers(_)
JsonMembers(pairs) ==
    IF pairs = <<>> THEN <<>>
    ELSE LET kv == Head(pairs)
             member == <<"\"">> \o kv[1] \o <<"\"", ":", "\"">> \o kv[2] \o <<"\"">>
         IN  IF Len(pairs) = 1 THEN member
             ELSE member \o <<",">> \o JsonMembers(Tail(pairs))

JsonStringify(pairs) == <<"{">> \o JsonMembers(pairs) \o <<"}">>

\* !customData : undefined and the empty string are falsy, an object is truthy
CustomDataFalsy(customData) ==
    customData = {} \/ ("str" \in DOMAIN The(customData) /\ The(customData).str = <<>>)

\* a plausible slip: the secret is put before the challenge
hashInputSecretFirst(challenge, secret) == secret \o challenge

\* challenge + this.secret
hashInput(challenge, secret) == challenge \o secret

\* a plausible slip: the method is left out of the message
unknownMethodErrorUnnamed(m) == KeyClaimError(MsgUnknownMethod, {}, {})

\* the error of the default branch of the switch
unknownMethodError(m) == KeyClaimError(MsgUnknownMethod \o m, {}, {})

\* method and customData are optional arguments
generateResponse(this, challenge, method, customData) ==
    LET m == IF method = {} THEN "hmac" ELSE The(method)
    IN  CASE m = "echo" -> Return(challenge)
          [] m = "hmac" -> Return(HmacSha256Hex(this.secret, challenge))
          [] m = "hash" -> Return(Sha256Hex(hashInput(challenge, this.secret)))
          [] m = "custom" ->
                IF CustomDataFalsy(customData)
                THEN Throw(KeyClaimError(MsgCustomRequired, {}, {}))
                ELSE LET cd == The(customData)
                         data == IF "str" \in DOMAIN cd
                                 THEN challenge \o <<":">> \o cd.str
                                 ELSE challenge \o <<":">> \o JsonStringify(cd.obj)
                     IN  Return(Sha256Hex(data))
          [] OTHER -> Throw(unknownMethodError(m))

----------------------------------------------------------------------------
(* The remote operations.  A transport reply is [resolved |-> [data |-> d]]   *)
(* (HTTP-level success) or [rejected |-> e] (the failure object e).           *)

Resolved(reply) == "resolved" \in DOMAIN reply

\* a plausible slip: the ttl passed is dropped
createChallengeRequestDefaultTtl(options) ==
    [url |-> UrlCreate, data |-> [ttl |-> DefaultTtl]]

\* the request createChallenge posts: ttl: options.ttl || 30
createChallengeRequest(options) ==
    [url |-> UrlCreate,
     data |-> [ttl |-> IF "ttl" \in DOMAIN options /\ options.ttl # 0
                       THEN options.ttl ELSE DefaultTtl]]

\* a plausible slip: the catch block of validateChallenge copied here, so a
\* failure whose payload has a valid field is returned as a negative outcome
createChallengeSettleAsVerdict(reply) ==
    IF Resolved(reply)
    THEN Return(reply.resolved.data)
    ELSE IF /\ "response" \in DOMAIN reply.rejected
            /\ "data" \in DOMAIN reply.rejected.response
            /\ "obj" \in DOMAIN reply.rejected.response.data
            /\ "valid" \in DOMAIN reply.rejected.response.data.obj
    THEN Return([valid |-> FALSE, error |-> MsgValidationFailed])
    ELSE Throw(handleError(reply.rejected, MsgCreateFailed))

\* what createChallenge does with the transport's reply
createChallengeSettle(reply) ==
    IF Resolved(reply)
    THEN Return(reply.resolved.data)
    ELSE Throw(handleError(reply.rejected, MsgCreateFailed))

\* a plausible slip: when no decrypted challenge is given the challenge itself
\* is sent in its place
validateChallengeRequestFillsDecrypted(options) ==
    [url |-> UrlValidate,
     data |-> [challenge |-> options.challenge, response |-> options.response,
               decryptedChallenge |->
                   IF "decryptedChallenge" \in DOMAIN options
                   THEN options.decryptedChallenge ELSE options.challenge]]

\* the request validateChallenge posts
validateChallengeRequest(options) ==
    [url |-> UrlValidate,
     data |-> [challenge |-> options.challenge, response |-> options.response]
                  @@ OptField("decryptedChallenge", Prop(options, "decryptedChallenge"))]

\* axiosError.response?.data is truthy
ResponseDataTruthy(error) ==
    /\ "response" \in DOMAIN error
    /\ "data" \in DOMAIN error.response
    /\ ("str" \in DOMAIN error.response.data => error.response.data.str # "")

\* a plausible slip: only the verdict of the payload is passed on
validateSuccessStripped(data) == [valid |-> data.valid]

\* return response.data
validateChallengeSuccess(data) == data

\* a plausible slip: the payload's own verdict is passed on
validationFailureOwnVerdict(data) ==
    [valid |-> data.valid,
     error |-> The(OrStr(Prop(data, "error"), {MsgValidationFailed}))]

\* the outcome made of an error payload that has a valid field
validationFailure(data) ==
    [valid |-> FALSE,
     error |-> The(OrStr(Prop(data, "error"), {MsgValidationFailed}))]

\* a plausible slip: a negative verdict is treated as an error and thrown
validateChallengeSettleThrowsInvalid(reply) ==
    IF Resolved(reply)
    THEN IF reply.resolved.data.valid
         THEN Return(validateChallengeSuccess(reply.resolved.data))
         ELSE Throw(KeyClaimError(MsgValidationFailed, {}, {}))
    ELSE Throw(handleError(reply.rejected, MsgValidateFailed))

\* what validateChallenge does with the transport's reply
validateChallengeSettle(reply) ==
    IF Resolved(reply)
    THEN Return(validateChallengeSuccess(reply.resolved.data))
    ELSE LET error == reply.rejected
         IN  IF ResponseDataTruthy(error)
             THEN IF "str" \in DOMAIN error.response.data
                  \* 'valid' in <a string> raises a TypeError inside the catch block
                  THEN Throw(TypeError("Cannot use 'in' operator to search for 'valid' in "
                                           \o error.response.data.str))
                  ELSE IF "valid" \in DOMAIN error.response.data.obj
                  THEN Return(validationFailure(error.response.data.obj))
                  ELSE Throw(handleError(error, MsgValidateFailed))
             ELSE Throw(handleError(error, MsgValidateFailed))

----------------------------------------------------------------------------
(* The composite operation validate(method = 'hmac', ttl = 30, customData)    *)

\* the catch block of validate: every error of a step goes through handleError
validateCatch(error) == handleError(error, MsgFlowFailed)

\* a plausible slip: another default for ttl
validateCreateRequestLongDefault(a) ==
    createChallengeRequest([ttl |-> IF "ttl" \in DOMAIN a THEN a.ttl ELSE 2 * DefaultTtl])

\* validate's call of createChallenge({ ttl }), ttl defaulting to 30 when absent
validateCreateRequest(a) ==
    createChallengeRequest([ttl |-> IF "ttl" \in DOMAIN a THEN a.ttl ELSE DefaultTtl])

\* a plausible slip: the issued challenge is kept in a field of the instance,
\* so validate goes on with a challenge issued to another invocation in flight
validateOnCreateReplySharedField(this, a, reply) ==
    LET created == createChallengeSettle(reply)
        inFlight == {q \in Procs : /\ op[q] = "validate"
                                   /\ Len(replies[q]) >= 1
                                   /\ "resolved" \in DOMAIN replies[q][1]}
        issued == {replies[q][1].resolved.data.challenge : q \in inFlight}
    IN  IF Thrown(created)
        THEN [steps |-> <<[step |-> "createChallenge", outcome |-> created]>>,
              settle |-> Throw(handleError(created.thrown, MsgFlowFailed))]
        ELSE LET challenge == IF issued = {} THEN created.returned.challenge
                              ELSE CHOOSE c \in issued : TRUE
                 response == generateResponse(this, challenge,
                                 Prop(a, "method"), Prop(a, "customData"))
                 ran == <<[step |-> "createChallenge", outcome |-> created],
                          [step |-> "generateResponse", outcome |-> response]>>
             IN  IF Thrown(response)
                 THEN [steps |-> ran,
                       settle |-> Throw(handleError(response.thrown, MsgFlowFailed))]
                 ELSE [steps |-> ran,
                       post |-> [url |-> UrlValidate,
                                 data |-> [challenge |-> challenge,
                                           response |-> response.returned]]]

\* a plausible slip: a failed create step is swallowed and validate goes on with
\* an empty challenge
validateOnCreateReplyGoesOn(this, a, reply) ==
    LET created == createChallengeSettle(reply)
        challenge == IF Thrown(created) THEN <<>> ELSE created.returned.challenge
        response == generateResponse(this, challenge,
                        Prop(a, "method"), Prop(a, "customData"))
        ran == <<[step |-> "createChallenge", outcome |-> created],
                 [step |-> "generateResponse", outcome |-> response]>>
    IN  IF Thrown(response)
        THEN [steps |-> ran, settle |-> Throw(handleError(response.thrown, MsgFlowFailed))]
        ELSE [steps |-> ran,
              post |-> [url |-> UrlValidate,
                        data |-> [challenge |-> challenge,
                                  response |-> response.returned]]]

\* validate resumed with the reply to its create request: the outcomes of the
\* steps run (steps), and either the request to post next (post) or what
\* validate settles with (settle)
validateOnCreateReply(this, a, reply) ==
    LET created == createChallengeSettle(reply)
    IN  IF Thrown(created)
        THEN [steps |-> <<[step |-> "createChallenge", outcome |-> created]>>,
              settle |-> Throw(validateCatch(created.thrown))]
        ELSE LET challenge == created.returned.challenge
                 response == generateResponse(this, challenge,
                                 Prop(a, "method"), Prop(a, "customData"))
                 ran == <<[step |-> "createChallenge", outcome |-> created],
                          [step |-> "generateResponse", outcome |-> response]>>
             IN  IF Thrown(response)
                 THEN [steps |-> ran, settle |-> Throw(validateCatch(response.thrown))]
                 ELSE [steps |-> ran,
                       post |-> validateChallengeRequest(
                                    [challenge |-> challenge,
                                     response |-> response.returned])]

\* a plausible slip: validate passes on the verdict only
validateOnValidateReplyVerdictOnly(reply) ==
    LET validated == validateChallengeSettle(reply)
    IN  [steps |-> <<[step |-> "validateChallenge", outcome |-> validated]>>,
         settle |-> IF Thrown(validated)
                    THEN Throw(handleError(validated.thrown, MsgFlowFailed))
                    ELSE Return([valid |-> validated.returned.valid])]

\* validate resumed with the reply to its validate request
validateOnValidateReply(reply) ==
    LET validated == validateChallengeSettle(reply)
    IN  [steps |-> <<[step |-> "validateChallenge", outcome |-> validated]>>,
         settle |-> IF Thrown(validated)
                    THEN Throw(validateCatch(validated.thrown))
                    ELSE validated]

----------------------------------------------------------------------------
(* Inputs *)

\* challenges the service issues: "a", "aa", ... up to this length
MaxChallengeLen == 2

Challenges == {[i \in 1..n |-> "a"] : n \in 1..MaxChallengeLen}

\* API keys handed to the constructor: every string over these characters up to
\* this length
MaxKeyLen == 4

KeyChars == {"k", "c", "_"}

ApiKeys == UNION {[1..n -> KeyChars] : n \in 0..MaxKeyLen}

Secrets == {<<>>, <<"a">>}

Configs ==
    {[str |-> k] : k \in ApiKeys}
        \cup {[obj |-> [apiKey |-> k]] : k \in ApiKeys}
        \cup {[obj |-> [apiKey |-> k, secret |-> s]] : k \in ApiKeys, s \in Secrets}

Ttls == {0, 30, 60}

CreateOptions == {EmptyObj} \cup [ttl : Ttls]

Methods == {"echo", "hmac", "hash", "custom", "bogus", "HMAC"}

CustomDatas == {[str |-> <<>>], [str |-> <<"d">>],
                [obj |-> <<<< <<"u">>, <<"1">> >>>>]}

ValidateArgs ==
    {EmptyObj} \cup [method : Methods] \cup [method : {"hmac"}, ttl : Ttls]
        \cup [method : {"custom", "echo"}, ttl : {30}, customData : CustomDatas]

GenerateArgs ==
    [challenge : Challenges] \cup [challenge : Challenges, method : Methods]
        \cup [challenge : Challenges, method : {"custom", "echo"}, customData : CustomDatas]

Responses == {<<"r">>}

ValidateOptions ==
    [challenge : Challenges, response : Responses]
        \cup [challenge : Challenges, response : Responses, decryptedChallenge : {<<"p">>}]

\* payloads of the create endpoint on success
CreatePayloads ==
    [challenge : Challenges, expires_in : {30}]
        \cup [challenge : Challenges, expires_in : {30}, encrypted : {TRUE}]

Quotas == {[used |-> 10, remaining |-> 90, quota |-> 100]}

\* payloads of the validate endpoint on success
ValidatePayloads ==
    [valid : BOOLEAN]
        \cup [valid : {FALSE}, error : {"Invalid response"}]
        \cup [valid : {TRUE}, signature : {"sig"}, quota : Quotas]

ErrorTexts == {"", "Forbidden"}
MessageTexts == {"", "Access denied"}

\* structured bodies of a failed call: every combination of error, message,
\* valid, and bodies whose error text is one of the codes handleError itself
\* assigns
ErrorObjects ==
    {EmptyObj} \cup [error : {"network_error", "unknown_error"}]
        \cup [error : ErrorTexts] \cup [message : MessageTexts] \cup [valid : BOOLEAN]
        \cup [error : ErrorTexts, message : MessageTexts]
        \cup [error : ErrorTexts, valid : BOOLEAN]
        \cup [message : MessageTexts, valid : BOOLEAN]
        \cup [error : ErrorTexts, message : MessageTexts, valid : BOOLEAN]

ErrorBodies ==
    {[str |-> ""], [str |-> "Internal Server Error"]}
        \cup {[obj |-> o] : o \in ErrorObjects}

Statuses == {400, 500}

ErrorResponses == [status : Statuses] \cup [status : Statuses, data : ErrorBodies]

TransportMessages == {"", "Network timeout"}

\* the failure objects the transport rejects with
Failures ==
    {EmptyObj} \cup [message : TransportMessages]
        \cup [request : {"req"}] \cup [request : {"req"}, message : TransportMessages]
        \cup [response : ErrorResponses]
        \cup [response : ErrorResponses, message : TransportMessages]
        \cup [response : ErrorResponses, request : {"req"}]
        \cup [response : ErrorResponses, request : {"req"}, message : TransportMessages]

CreateReplies ==
    {[resolved |-> [data |-> d]] : d \in CreatePayloads}
        \cup {[rejected |-> e] : e \in Failures}

ValidateReplies ==
    {[resolved |-> [data |-> d]] : d \in ValidatePayloads}
        \cup {[rejected |-> e] : e \in Failures}

\* the inputs of the invocations that run side by side: a few of each kind
ConcCreateOptions == {EmptyObj, [ttl |-> 60]}

ConcValidateOptions == [challenge : Challenges, response : Responses]

ConcValidateArgs == {EmptyObj, [method |-> "echo"], [method |-> "bogus"]}

ConcCreateReplies ==
    {[resolved |-> [data |-> d]] : d \in [challenge : Challenges, expires_in : {30}]}
        \cup {[rejected |-> [request |-> "req"]]}

ConcValidateReplies ==
    {[resolved |-> [data |-> [valid |-> TRUE]]],
     [rejected |-> [response |-> [status |-> 400, data |-> [obj |-> [valid |-> FALSE]]]]],
     [rejected |-> [response |-> [status |-> 500]]]}

----------------------------------------------------------------------------
(* The state machine *)

NoClient == [constructed |-> FALSE]
NoCtor == [called |-> FALSE]

\* no invocation is in progress
Idle ==
    /\ pc = [p \in Procs |-> "idle"]
    /\ op = [p \in Procs |-> "none"]
    /\ args = [p \in Procs |-> EmptyObj]
    /\ requests = [p \in Procs |-> <<>>]
    /\ replies = [p \in Procs |-> <<>>]
    /\ steps = [p \in Procs |-> <<>>]
    /\ result = [p \in Procs |-> NoOutcome]

\* before any constructor call
InitCtor ==
    /\ client = NoClient
    /\ ctor = NoCtor
    /\ Idle

\* the constructor calls the clients of Spec are made by
InitConfigs ==
    {[str |-> <<"k", "c", "_">>],
     [obj |-> [apiKey |-> <<"k", "c", "_">>, secret |-> <<"a">>]],
     [obj |-> [apiKey |-> <<"k", "c", "_", "k">>, secret |-> <<>>]]}

\* after a successful construction: the constructor call is over and only the
\* client it made remains
Init ==
    /\ \E config \in InitConfigs : client = Constructor(config, {}).outcome.returned
    /\ ctor = NoCtor
    /\ Idle

\* new KeyClaimClient(config, secret)
Construct(config, secret) ==
    /\ ctor = NoCtor
    /\ LET c == Constructor(config, secret)
       IN  /\ ctor' = [config |-> config, secret |-> secret,
                       outcome |-> c.outcome, axiosCreate |-> c.axiosCreate]
           /\ client' = IF Returned(c.outcome) THEN c.outcome.returned ELSE NoClient
    /\ UNCHANGED <<pc, op, args, requests, replies, steps, result>>

\* the caller drops what the constructor call gave and may construct again (once
\* no invocation on the instance is outstanding: the model holds one instance)
Discard ==
    /\ ctor # NoCtor
    /\ \A p \in Procs : pc[p] = "idle"
    /\ ctor' = NoCtor
    /\ client' = NoClient
    /\ UNCHANGED <<pc, op, args, requests, replies, steps, result>>

Begin(p, name, a) ==
    /\ client # NoClient
    /\ pc[p] = "idle"
    /\ op' = [op EXCEPT ![p] = name]
    /\ args' = [args EXCEPT ![p] = a]
    /\ UNCHANGED <<client, ctor>>

\* createChallenge(options) up to its await
CallCreateChallenge(p, options) ==
    /\ Begin(p, "createChallenge", options)
    /\ requests' = [requests EXCEPT ![p] = <<createChallengeRequest(options)>>]
    /\ pc' = [pc EXCEPT ![p] = "create"]
    /\ UNCHANGED <<replies, steps, result>>

\* a plausible slip: the challenge and the response generated for it are kept
\* in a field of the instance
CallGenerateResponseCaches(p, a) ==
    /\ client # NoClient
    /\ pc[p] = "idle"
    /\ op' = [op EXCEPT ![p] = "generateResponse"]
    /\ args' = [args EXCEPT ![p] = a]
    /\ LET generated == generateResponse(client, a.challenge,
                                         Prop(a, "method"), Prop(a, "customData"))
       IN  /\ result' = [result EXCEPT ![p] = generated]
           /\ client' = [apiKey |-> client.apiKey, baseUrl |-> client.baseUrl,
                         secret |-> client.secret, axiosInstance |-> client.axiosInstance,
                         last |-> [challenge |-> a.challenge, outcome |-> generated]]
    /\ pc' = [pc EXCEPT ![p] = "done"]
    /\ UNCHANGED <<ctor, requests, replies, steps>>

\* generateResponse(challenge, method, customData): synchronous, no request
CallGenerateResponse(p, a) ==
    /\ Begin(p, "generateResponse", a)
    /\ result' = [result EXCEPT ![p] =
                     generateResponse(client, a.challenge,
                                      Prop(a, "method"), Prop(a, "customData"))]
    /\ pc' = [pc EXCEPT ![p] = "done"]
    /\ UNCHANGED <<requests, replies, steps>>

\* validateChallenge(options) up to its await
CallValidateChallenge(p, options) ==
    /\ Begin(p, "validateChallenge", options)
    /\ requests' = [requests EXCEPT ![p] = <<validateChallengeRequest(options)>>]
    /\ pc' = [pc EXCEPT ![p] = "validate"]
    /\ UNCHANGED <<replies, steps, result>>

\* validate(method, ttl, customData) up to the await inside createChallenge
CallValidate(p, a) ==
    /\ Begin(p, "validate", a)
    /\ requests' = [requests EXCEPT ![p] = <<validateCreateRequest(a)>>]
    /\ pc' = [pc EXCEPT ![p] = "create"]
    /\ UNCHANGED <<replies, steps, result>>

\* a plausible slip: a failed create request is posted once more
CreateChallengeReplyRetries(p, reply) ==
    /\ pc[p] = "create" /\ op[p] = "createChallenge"
    /\ replies' = [replies EXCEPT ![p] = Append(@, reply)]
    /\ IF "rejected" \in DOMAIN reply /\ Len(requests[p]) < 2
       THEN /\ requests' = [requests EXCEPT ![p] = Append(@, requests[p][1])]
            /\ UNCHANGED <<pc, result>>
       ELSE /\ result' = [result EXCEPT ![p] = createChallengeSettle(reply)]
            /\ pc' = [pc EXCEPT ![p] = "done"]
            /\ UNCHANGED requests
    /\ UNCHANGED <<client, ctor, op, args, steps>>

\* the transport answers the create request of a createChallenge invocation
CreateChallengeReply(p, reply) ==
    /\ pc[p] = "create" /\ op[p] = "createChallenge"
    /\ replies' = [replies EXCEPT ![p] = Append(@, reply)]
    /\ result' = [result EXCEPT ![p] = createChallengeSettle(reply)]
    /\ pc' = [pc EXCEPT ![p] = "done"]
    /\ UNCHANGED <<client, ctor, op, args, requests, steps>>

\* the transport answers the validate request of a validateChallenge invocation
ValidateChallengeReply(p, reply) ==
    /\ pc[p] = "validate" /\ op[p] = "validateChallenge"
    /\ replies' = [replies EXCEPT ![p] = Append(@, reply)]
    /\ result' = [result EXCEPT ![p] = validateChallengeSettle(reply)]
    /\ pc' = [pc EXCEPT ![p] = "done"]
    /\ UNCHANGED <<client, ctor, op, args, requests, steps>>

\* a plausible slip: a failed create step is swallowed and validate never
\* settles
ValidateCreateReplyHangs(p, reply) ==
    /\ pc[p] = "create" /\ op[p] = "validate"
    /\ replies' = [replies EXCEPT ![p] = Append(@, reply)]
    /\ LET k == validateOnCreateReply(client, args[p], reply)
       IN  /\ steps' = [steps EXCEPT ![p] = @ \o k.steps]
           /\ IF "post" \in DOMAIN k
              THEN /\ requests' = [requests EXCEPT ![p] = Append(@, k.post)]
                   /\ pc' = [pc EXCEPT ![p] = "validate"]
                   /\ UNCHANGED result
              ELSE /\ pc' = [pc EXCEPT ![p] = "hung"]
                   /\ UNCHANGED <<requests, result>>
    /\ UNCHANGED <<client, ctor, op, args>>

\* the transport answers the create request of a validate invocation: validate
\* runs on to its next await or to its end
ValidateCreateReply(p, reply) ==
    /\ pc[p] = "create" /\ op[p] = "validate"
    /\ replies' = [replies EXCEPT ![p] = Append(@, reply)]
    /\ LET k == validateOnCreateReply(client, args[p], reply)
       IN  /\ steps' = [steps EXCEPT ![p] = @ \o k.steps]
           /\ IF "post" \in DOMAIN k
              THEN /\ requests' = [requests EXCEPT ![p] = Append(@, k.post)]
                   /\ pc' = [pc EXCEPT ![p] = "validate"]
                   /\ UNCHANGED result
              ELSE /\ result' = [result EXCEPT ![p] = k.settle]
                   /\ pc' = [pc EXCEPT ![p] = "done"]
                   /\ UNCHANGED requests
    /\ UNCHANGED <<client, ctor, op, args>>

\* the transport answers the validate request of a validate invocation
ValidateValidateReply(p, reply) ==
    /\ pc[p] = "validate" /\ op[p] = "validate"
    /\ replies' = [replies EXCEPT ![p] = Append(@, reply)]
    /\ LET k == validateOnValidateReply(reply)
       IN  /\ steps' = [steps EXCEPT ![p] = @ \o k.steps]
           /\ result' = [result EXCEPT ![p] = k.settle]
    /\ pc' = [pc EXCEPT ![p] = "done"]
    /\ UNCHANGED <<client, ctor, op, args, requests>>

\* the caller has taken the result: nothing of the invocation is kept
Finish(p) ==
    /\ pc[p] = "done"
    /\ pc' = [pc EXCEPT ![p] = "idle"]
    /\ op' = [op EXCEPT ![p] = "none"]
    /\ args' = [args EXCEPT ![p] = EmptyObj]
    /\ requests' = [requests EXCEPT ![p] = <<>>]
    /\ replies' = [replies EXCEPT ![p] = <<>>]
    /\ steps' = [steps EXCEPT ![p] = <<>>]
    /\ result' = [result EXCEPT ![p] = NoOutcome]
    /\ UNCHANGED <<client, ctor>>

Next ==
    \/ \E p \in MainProcs, options \in CreateOptions : CallCreateChallenge(p, options)
    \/ \E p \in MainProcs, a \in GenerateArgs : CallGenerateResponse(p, a)
    \/ \E p \in MainProcs, options \in ValidateOptions : CallValidateChallenge(p, options)
    \/ \E p \in MainProcs, a \in ValidateArgs : CallValidate(p, a)
    \/ \E p \in MainProcs, reply \in CreateReplies : CreateChallengeReply(p, reply)
    \/ \E p \in MainProcs, reply \in ValidateReplies : ValidateChallengeReply(p, reply)
    \/ \E p \in MainProcs, reply \in CreateReplies : ValidateCreateReply(p, reply)
    \/ \E p \in MainProcs, reply \in ValidateReplies : ValidateValidateReply(p, reply)
    \/ \E p \in MainProcs : Finish(p)

\* operations on a constructed client, one invocation at a time
Spec == Init /\ [][Next]_vars

NextCtor ==
    \/ \E config \in Configs, secret \in {{}} \cup {{s} : s \in Secrets} :
           Construct(config, secret)
    \/ Discard
    \/ \E p \in MainProcs, a \in GenerateArgs : CallGenerateResponse(p, a)
    \/ \E p \in MainProcs : Finish(p)

\* constructor calls, and response generation on the clients they make
SpecCtor == InitCtor /\ [][NextCtor]_vars

NextGen ==
    \/ \E p \in Procs, a \in GenerateArgs : CallGenerateResponse(p, a)
    \/ \E p \in Procs : Finish(p)

\* several calls of generateResponse on one constructed client
SpecGen == Init /\ [][NextGen]_vars

\* one client, made with a secret of its own
InitConc ==
    /\ client = Constructor([obj |-> [apiKey |-> <<"k", "c", "_">>, secret |-> <<"a">>]],
                            {}).outcome.returned
    /\ ctor = NoCtor
    /\ Idle

NextConc ==
    \/ \E p \in Procs, options \in ConcCreateOptions : CallCreateChallenge(p, options)
    \/ \E p \in Procs, options \in ConcValidateOptions : CallValidateChallenge(p, options)
    \/ \E p \in Procs, a \in ConcValidateArgs : CallValidate(p, a)
    \/ \E p \in Procs, reply \in ConcCreateReplies : CreateChallengeReply(p, reply)
    \/ \E p \in Procs, reply \in ConcValidateReplies : ValidateChallengeReply(p, reply)
    \/ \E p \in Procs, reply \in ConcCreateReplies : ValidateCreateReply(p, reply)
    \/ \E p \in Procs, reply \in ConcValidateReplies : ValidateValidateReply(p, reply)
    \/ \E p \in Procs : Finish(p)

\* invocations of the remote operations in flight side by side on one client:
\* every await of one may be followed by steps of the others
SpecConc == InitConc /\ [][NextConc]_vars

NextLive ==
    \/ \E p \in Procs, a \in ConcValidateArgs : CallValidate(p, a)
    \/ \E p \in Procs, reply \in ConcCreateReplies : ValidateCreateReply(p, reply)
    \/ \E p \in Procs, reply \in ConcValidateReplies : ValidateValidateReply(p, reply)
    \/ \E p \in Procs : Finish(p)

\* the transport answers or fails every request it was given (the instance is
\* created with a timeout); callers are under no obligation to call or to take
\* a result
TransportAnswers ==
    \A p \in Procs :
        /\ WF_vars(\E reply \in ConcCreateReplies : ValidateCreateReply(p, reply))
        /\ WF_vars(\E reply \in ConcValidateReplies : ValidateValidateReply(p, reply))

\* validate invocations, one after another and side by side, on one client
\* whose transport answers
SpecLive == InitConc /\ [][NextLive]_vars /\ TransportAnswers

----------------------------------------------------------------------------
(* What the claims are stated over *)

Done(p, name) == pc[p] = "done" /\ op[p] = name

\* the validateChallenge calls that have settled in slot p, called directly or
\* by validate: the transport's reply and what validateChallenge did with it
ValidateChallengeCalls(p) ==
    IF Done(p, "validateChallenge")
    THEN {[reply |-> replies[p][1], outcome |-> result[p], default |-> MsgValidateFailed]}
    ELSE IF op[p] = "validate" /\ Len(replies[p]) = 2
    THEN {[reply |-> replies[p][2], outcome |-> steps[p][3].outcome,
           default |-> MsgValidateFailed]}
    ELSE {}

\* the createChallenge calls that have settled in slot p, called directly or by
\* validate
CreateChallengeCalls(p) ==
    IF Done(p, "createChallenge")
    THEN {[reply |-> replies[p][1], outcome |-> result[p], default |-> MsgCreateFailed]}
    ELSE IF op[p] = "validate" /\ Len(replies[p]) >= 1
    THEN {[reply |-> replies[p][1], outcome |-> steps[p][1].outcome,
           default |-> MsgCreateFailed]}
    ELSE {}

\* the error payload of a failed call is a structured object that has a field f
PayloadHas(reply, f) ==
    /\ "rejected" \in DOMAIN reply
    /\ "response" \in DOMAIN reply.rejected
    /\ "data" \in DOMAIN reply.rejected.response
    /\ "obj" \in DOMAIN reply.rejected.response.data
    /\ f \in DOMAIN reply.rejected.response.data.obj

Payload(reply) == reply.rejected.response.data.obj

----------------------------------------------------------------------------
(* C1 *)

\* C1 as stated: when the validate call fails at the HTTP level and the error
\* payload has a valid field, validateChallenge returns {valid: false, error: E}
\* with E the payload's error when the payload has an error field and
\* "Validation failed" otherwise.
C1_AsStated ==
    \A p \in Procs : \A c \in ValidateChallengeCalls(p) :
        PayloadHas(c.reply, "valid") =>
            c.outcome = Return([valid |-> FALSE,
                                error |-> IF PayloadHas(c.reply, "error")
                                          THEN Payload(c.reply).error
                                          ELSE MsgValidationFailed])

\* C1 amended: when the validate call fails at the HTTP level and the error
\* payload has a valid field (whatever its value and the other fields), the call
\* does not throw and returns exactly {valid: false, error: E} with E the
\* payload's error when it is a non-empty string and "Validation failed" when
\* the payload has no error or an empty one.
C1_InvalidPayloadIsReturned ==
    \A p \in Procs : \A c \in ValidateChallengeCalls(p) :
        PayloadHas(c.reply, "valid") =>
            c.outcome = Return([valid |-> FALSE,
                                error |-> IF PayloadHas(c.reply, "error")
                                             /\ Payload(c.reply).error # ""
                                          THEN Payload(c.reply).error
                                          ELSE MsgValidationFailed])

\* a validateChallenge call has settled on a failed call whose payload says
\* valid: true and carries an error text and a message
C1_Witness ==
    \E p \in Procs : \E c \in ValidateChallengeCalls(p) :
        /\ Done(p, "validateChallenge")
        /\ PayloadHas(c.reply, "valid") /\ Payload(c.reply).valid
        /\ PayloadHas(c.reply, "error") /\ Payload(c.reply).error = "Forbidden"
        /\ PayloadHas(c.reply, "message")
        /\ Returned(c.outcome)

----------------------------------------------------------------------------
(* C2 *)

\* C2: when the validate call succeeds at the HTTP level, validateChallenge
\* returns the server's payload unchanged, also when the payload says
\* valid: false.
C2_SuccessPayloadVerbatim ==
    \A p \in Procs : \A c \in ValidateChallengeCalls(p) :
        Resolved(c.reply) => c.outcome = Return(c.reply.resolved.data)

\* a validateChallenge call has settled on an HTTP-level success whose payload
\* says valid: false and carries an error text
C2_Witness ==
    \E p \in Procs : \E c \in ValidateChallengeCalls(p) :
        /\ Done(p, "validateChallenge")
        /\ Resolved(c.reply)
        /\ ~c.reply.resolved.data.valid
        /\ "error" \in DOMAIN c.reply.resolved.data
        /\ Returned(c.outcome)

----------------------------------------------------------------------------
(* C3 *)

\* C3 as stated: for every failure of the validate call whose error payload has
\* no valid field (no response, no body, a body that is a string, an object
\* without valid) validateChallenge throws the KeyClaimError of the three-tier
\* classification with default message "Failed to validate challenge", and
\* nothing but a KeyClaimError escapes validateChallenge.
C3_AsStated ==
    \A p \in Procs : \A c \in ValidateChallengeCalls(p) :
        /\ (~Resolved(c.reply) /\ ~PayloadHas(c.reply, "valid")) =>
               /\ Thrown(c.outcome)
               /\ c.outcome = Throw(handleError(c.reply.rejected, MsgValidateFailed))
        /\ Thrown(c.outcome) => IsKeyClaimError(c.outcome.thrown)

----------------------------------------------------------------------------
(* C4 *)

\* the error thrown by the step of a validate invocation that failed: the last
\* step that ran
FailedStepError(p) == steps[p][Len(steps[p])].outcome.thrown

\* C4 as stated: when one of the three steps of validate fails, the error
\* validate throws has the same message, code and statusCode as the error the
\* step throws when called directly.
C4_AsStated ==
    \A p \in Procs :
        (Done(p, "validate") /\ Thrown(result[p])) =>
            /\ Prop(result[p].thrown, "message") = Prop(FailedStepError(p), "message")
            /\ Prop(result[p].thrown, "code") = Prop(FailedStepError(p), "code")
            /\ Prop(result[p].thrown, "statusCode") = Prop(FailedStepError(p), "statusCode")

----------------------------------------------------------------------------
(* C5 *)

\* C5: a validate invocation whose create call succeeds, whose response
\* generation succeeds and whose validate call succeeds at the HTTP level has
\* issued exactly two requests, POST /challenge/create and then
\* POST /challenge/validate, and returns the payload of the second unchanged;
\* no validate invocation ever issues more than two requests.
C5_TwoCallsThenPayload ==
    \A p \in Procs :
        op[p] = "validate" =>
            /\ Len(requests[p]) <= 2
            /\ (/\ pc[p] = "done"
                /\ Resolved(replies[p][1])
                /\ Returned(steps[p][2].outcome)) =>
                   /\ Len(requests[p]) = 2
                   /\ requests[p][1].url = UrlCreate
                   /\ requests[p][2].url = UrlValidate
                   /\ Len(replies[p]) = 2
                   /\ Resolved(replies[p][2]) =>
                          result[p] = Return(replies[p][2].resolved.data)

\* a validate invocation has ended after two successful calls, the second with
\* a signed payload
C5_Witness ==
    \E p \in Procs :
        /\ Done(p, "validate")
        /\ Len(replies[p]) = 2
        /\ Resolved(replies[p][1]) /\ Resolved(replies[p][2])
        /\ "signature" \in DOMAIN replies[p][2].resolved.data
        /\ Returned(result[p])

----------------------------------------------------------------------------
(* C6 *)

\* C6: in a validate invocation the validate request is issued only after the
\* create call has been answered successfully and the response has been
\* generated; when the create call fails the create request stays the only
\* request, and when generation fails the create request is the only request and
\* the validate endpoint is not called.
C6_StepsInOrder ==
    \A p \in Procs :
        op[p] = "validate" =>
            /\ Len(requests[p]) >= 1 /\ requests[p][1].url = UrlCreate
            /\ \A i \in 2..Len(requests[p]) :
                   /\ requests[p][i].url = UrlValidate
                   /\ i = 2
                   /\ Len(replies[p]) >= 1 /\ Resolved(replies[p][1])
                   /\ Len(steps[p]) >= 2
                   /\ steps[p][1].step = "createChallenge" /\ Returned(steps[p][1].outcome)
                   /\ steps[p][2].step = "generateResponse" /\ Returned(steps[p][2].outcome)
            /\ (Len(replies[p]) >= 1 /\ ~Resolved(replies[p][1])) =>
                   /\ Len(requests[p]) = 1
                   /\ pc[p] = "done" /\ Thrown(result[p])
            /\ (Len(steps[p]) >= 2 /\ Thrown(steps[p][2].outcome)) =>
                   /\ Len(requests[p]) = 1
                   /\ pc[p] = "done" /\ Thrown(result[p])

\* a validate invocation with an unknown method has ended after a successful
\* create call
C6_Witness ==
    \E p \in Procs :
        /\ Done(p, "validate")
        /\ Prop(args[p], "method") = {"bogus"}
        /\ Len(replies[p]) = 1 /\ Resolved(replies[p][1])
        /\ Thrown(steps[p][2].outcome)
        /\ Len(requests[p]) = 1

----------------------------------------------------------------------------
(* C7, C8, C9: the classification of a failed remote call, as seen in the     *)
(* error thrown by the operation that made the call                           *)

\* the field f of the body of the failure's response, when the body is a
\* structured object that has the field
BodyField(failure, f) ==
    IF /\ "data" \in DOMAIN failure.response
       /\ "obj" \in DOMAIN failure.response.data
       /\ f \in DOMAIN failure.response.data.obj
    THEN {failure.response.data.obj[f]}
    ELSE {}

\* the first of the optional texts that is present, else the default
RECURSIVE FirstPresent(_, _)
FirstPresent(texts, default) ==
    IF texts = <<>> THEN default
    ELSE IF Head(texts) # {} THEN The(Head(texts))
    ELSE FirstPresent(Tail(texts), default)

\* the first of the optional texts that is present and not empty, else the default
RECURSIVE FirstNonEmpty(_, _)
FirstNonEmpty(texts, default) ==
    IF texts = <<>> THEN default
    ELSE IF Head(texts) # {} /\ The(Head(texts)) # "" THEN The(Head(texts))
    ELSE FirstNonEmpty(Tail(texts), default)

\* the call c failed with a failure of this shape and a KeyClaimError was thrown
FailedWith(c, withResponse, withRequest) ==
    /\ "rejected" \in DOMAIN c.reply
    /\ ("response" \in DOMAIN c.reply.rejected) = withResponse
    /\ ("request" \in DOMAIN c.reply.rejected) = withRequest
    /\ Thrown(c.outcome)
    /\ IsKeyClaimError(c.outcome.thrown)

C7_StatedOf(c) ==
    \A withRequest \in BOOLEAN :
        FailedWith(c, TRUE, withRequest) =>
            LET failure == c.reply.rejected
                thrown == c.outcome.thrown
            IN  /\ Prop(thrown, "statusCode") = {failure.response.status}
                /\ Prop(thrown, "code") = BodyField(failure, "error")
                /\ thrown.message =
                       FirstPresent(<<BodyField(failure, "error"),
                                      BodyField(failure, "message"),
                                      Prop(failure, "message")>>, c.default)

\* C7 as stated: when a failed remote call carries a server response, the
\* thrown KeyClaimError has statusCode = the HTTP status, code = the body's error
\* field (absent when the body has none) and message = the first that is present
\* of body.error, body.message, the transport-level message, the default message.
C7_AsStated ==
    \A p \in Procs :
        /\ \A c \in CreateChallengeCalls(p) : C7_StatedOf(c)
        /\ \A c \in ValidateChallengeCalls(p) : C7_StatedOf(c)

C7_AmendedOf(c) ==
    \A withRequest \in BOOLEAN :
        FailedWith(c, TRUE, withRequest) =>
            LET failure == c.reply.rejected
                thrown == c.outcome.thrown
            IN  /\ Prop(thrown, "statusCode") = {failure.response.status}
                /\ Prop(thrown, "code") = BodyField(failure, "error")
                /\ thrown.message =
                       FirstNonEmpty(<<BodyField(failure, "error"),
                                       BodyField(failure, "message"),
                                       Prop(failure, "message")>>, c.default)

\* C7 amended: when a failed remote call carries a server response, the
\* KeyClaimError thrown by createChallenge or validateChallenge has statusCode =
\* the HTTP status, code = the body's error field (absent when the body has
\* none) and message = the first that is present and not the empty string of
\* body.error, body.message, the transport-level message, and the operation's
\* default message when there is none.
C7_ServerResponseClassified ==
    \A p \in Procs :
        /\ \A c \in CreateChallengeCalls(p) : C7_AmendedOf(c)
        /\ \A c \in ValidateChallengeCalls(p) : C7_AmendedOf(c)

\* createChallenge has thrown on a response with status 500 whose body has an
\* empty error and a message
C7_Witness ==
    \E p \in Procs : \E c \in CreateChallengeCalls(p) :
        /\ Done(p, "createChallenge")
        /\ FailedWith(c, TRUE, FALSE)
        /\ c.reply.rejected.response.status = 500
        /\ BodyField(c.reply.rejected, "error") = {""}
        /\ BodyField(c.reply.rejected, "message") = {"Access denied"}
        /\ c.outcome.thrown.message = "Access denied"

C8_Of(c) ==
    ("rejected" \in DOMAIN c.reply
        /\ "request" \in DOMAIN c.reply.rejected
        /\ "response" \notin DOMAIN c.reply.rejected) =>
            c.outcome = Throw([name |-> "KeyClaimError",
                               message |-> "Network error: No response received from server",
                               code |-> "network_error"])

\* C8: when a failed remote call carries a request and no response, the
\* operation that made the call throws a KeyClaimError with message "Network
\* error: No response received from server", code network_error and no
\* statusCode, whatever the failure's own message is.
C8_NoResponseIsNetworkError ==
    \A p \in Procs :
        /\ \A c \in CreateChallengeCalls(p) : C8_Of(c)
        /\ \A c \in ValidateChallengeCalls(p) : C8_Of(c)

\* validateChallenge has thrown on a failure that has a request, a message of
\* its own and no response
C8_Witness ==
    \E p \in Procs : \E c \in ValidateChallengeCalls(p) :
        /\ Done(p, "validateChallenge")
        /\ FailedWith(c, FALSE, TRUE)
        /\ Prop(c.reply.rejected, "message") = {"Network timeout"}

C9_StatedOf(c) ==
    FailedWith(c, FALSE, FALSE) =>
        LET failure == c.reply.rejected
            thrown == c.outcome.thrown
        IN  /\ Prop(thrown, "code") = {"unknown_error"}
            /\ Prop(thrown, "statusCode") = {}
            /\ thrown.message = FirstPresent(<<Prop(failure, "message")>>, c.default)

\* C9 as stated: when a failure carries neither a response nor a request, the
\* thrown KeyClaimError has code unknown_error, no statusCode, and message = the
\* failure's own message when it has one and the default message otherwise.
C9_AsStated ==
    \A p \in Procs :
        /\ \A c \in CreateChallengeCalls(p) : C9_StatedOf(c)
        /\ \A c \in ValidateChallengeCalls(p) : C9_StatedOf(c)

C9_AmendedOf(c) ==
    ("rejected" \in DOMAIN c.reply
        /\ "request" \notin DOMAIN c.reply.rejected
        /\ "response" \notin DOMAIN c.reply.rejected) =>
            LET failure == c.reply.rejected
            IN  /\ Thrown(c.outcome)
                /\ IsKeyClaimError(c.outcome.thrown)
                /\ Prop(c.outcome.thrown, "code") = {"unknown_error"}
                /\ Prop(c.outcome.thrown, "statusCode") = {}
                /\ c.outcome.thrown.message =
                       FirstNonEmpty(<<Prop(failure, "message")>>, c.default)

\* C9 amended: when a failed remote call carries neither a response nor a
\* request, the operation that made the call throws a KeyClaimError with code
\* unknown_error, no statusCode, and message = the failure's own message when it
\* has one that is not the empty string, and the operation's default message
\* when it has none or an empty one.
C9_NeitherIsUnknownError ==
    \A p \in Procs :
        /\ \A c \in CreateChallengeCalls(p) : C9_AmendedOf(c)
        /\ \A c \in ValidateChallengeCalls(p) : C9_AmendedOf(c)

\* createChallenge has thrown on a failure that has only a message of its own
C9_Witness ==
    \E p \in Procs : \E c \in CreateChallengeCalls(p) :
        /\ Done(p, "createChallenge")
        /\ FailedWith(c, FALSE, FALSE)
        /\ Prop(c.reply.rejected, "message") = {"Network timeout"}
        /\ c.outcome.thrown.message = "Network timeout"

----------------------------------------------------------------------------
(* C10 *)

\* the API key a constructor call was given, in either form
CtorApiKey == IF "str" \in DOMAIN ctor.config THEN ctor.config.str
              ELSE ctor.config.obj.apiKey

\* the key is not empty and its first three characters are k, c, _
HasKcPrefix(key) ==
    Len(key) >= 3 /\ key[1] = "k" /\ key[2] = "c" /\ key[3] = "_"

\* C10: in both forms of the constructor, when the API key is empty or does not
\* start with kc_ the call throws a KeyClaimError, no client exists afterwards,
\* the transport has not been created and no request has been issued; when the
\* key starts with kc_ the call succeeds and the client holds that key.
C10_KeyCheckedAtConstruction ==
    ctor # NoCtor =>
        IF HasKcPrefix(CtorApiKey)
        THEN /\ Returned(ctor.outcome)
             /\ client # NoClient
             /\ client.apiKey = CtorApiKey
             /\ ctor.axiosCreate = 1
        ELSE /\ Thrown(ctor.outcome)
             /\ IsKeyClaimError(ctor.outcome.thrown)
             /\ client = NoClient
             /\ ctor.axiosCreate = 0
             /\ \A p \in Procs : requests[p] = <<>>

\* a constructor call in the positional form, with a secret, has thrown on a
\* key that holds kc_ but not at its start
C10_Witness ==
    /\ ctor # NoCtor
    /\ "str" \in DOMAIN ctor.config
    /\ ctor.config.str = <<"c", "k", "c", "_">>
    /\ ctor.secret # {}
    /\ Thrown(ctor.outcome)

----------------------------------------------------------------------------
(* C11 *)

\* the secret the caller supplied to the constructor call: the second argument
\* in the positional form, config.secret in the object form
CtorSecretGiven == IF "str" \in DOMAIN ctor.config THEN ctor.secret
                   ELSE Prop(ctor.config.obj, "secret")

\* the method a generateResponse invocation runs: hmac when none is passed
MethodOf(a) == IF "method" \in DOMAIN a THEN a.method ELSE "hmac"

\* generation with the secret s of the invocation in slot p gives its result
GeneratedWithSecret(p, s) ==
    /\ MethodOf(args[p]) = "hmac" =>
           result[p] = Return(HmacSha256Hex(s, args[p].challenge))
    /\ MethodOf(args[p]) = "hash" =>
           result[p] = Return(Sha256Hex(args[p].challenge \o s))

\* C11 as stated: in both forms of the constructor, hmac and hash generation
\* use the API key when the caller supplied no secret, and exactly the supplied
\* secret when the caller supplied one.
C11_AsStated ==
    \A p \in Procs :
        (ctor # NoCtor /\ Returned(ctor.outcome) /\ Done(p, "generateResponse")) =>
            GeneratedWithSecret(p, IF CtorSecretGiven = {} THEN CtorApiKey
                                   ELSE The(CtorSecretGiven))

\* C11 amended: in both forms of the constructor, hmac and hash generation use
\* the API key when the caller supplied no secret or the empty string, and
\* exactly the supplied secret when the caller supplied a non-empty one.
C11_SecretSelected ==
    \A p \in Procs :
        (ctor # NoCtor /\ Returned(ctor.outcome) /\ Done(p, "generateResponse")) =>
            GeneratedWithSecret(p, IF CtorSecretGiven = {} \/ The(CtorSecretGiven) = <<>>
                                   THEN CtorApiKey
                                   ELSE The(CtorSecretGiven))

\* a client made in the object form with a secret of its own has generated a
\* hash response
C11_Witness ==
    \E p \in Procs :
        /\ ctor # NoCtor /\ Returned(ctor.outcome)
        /\ "obj" \in DOMAIN ctor.config
        /\ CtorSecretGiven = {<<"a">>}
        /\ Done(p, "generateResponse")
        /\ MethodOf(args[p]) = "hash"
        /\ Returned(result[p])

----------------------------------------------------------------------------
(* C12 *)

\* the invocation in slot p has posted its create request
CreatePosted(p) ==
    op[p] \in {"createChallenge", "validate"} /\ Len(requests[p]) >= 1

\* C12 as stated: the create request carries exactly the ttl the caller passed,
\* for every ttl passed (to createChallenge or to validate), and 30 when the
\* caller passed none; on HTTP-level success createChallenge returns the
\* server's payload unchanged.
C12_AsStated ==
    \A p \in Procs :
        /\ CreatePosted(p) =>
               /\ requests[p][1].url = UrlCreate
               /\ requests[p][1].data =
                      [ttl |-> IF "ttl" \in DOMAIN args[p] THEN args[p].ttl ELSE 30]
        /\ \A c \in CreateChallengeCalls(p) :
               Resolved(c.reply) => c.outcome = Return(c.reply.resolved.data)

\* C12 amended: the create request carries exactly the ttl the caller passed
\* (to createChallenge or to validate) when that ttl is not 0, and 30 when the
\* caller passed none or passed 0; on HTTP-level success createChallenge
\* returns the server's payload unchanged.
C12_TtlSentPayloadReturned ==
    \A p \in Procs :
        /\ CreatePosted(p) =>
               /\ requests[p][1].url = UrlCreate
               /\ requests[p][1].data =
                      [ttl |-> IF "ttl" \in DOMAIN args[p] /\ args[p].ttl # 0
                               THEN args[p].ttl ELSE 30]
        /\ \A c \in CreateChallengeCalls(p) :
               Resolved(c.reply) => c.outcome = Return(c.reply.resolved.data)

\* createChallenge called with ttl 60 has returned a payload marked encrypted
C12_Witness ==
    \E p \in Procs : \E c \in CreateChallengeCalls(p) :
        /\ Done(p, "createChallenge")
        /\ Prop(args[p], "ttl") = {60}
        /\ requests[p][1].data.ttl = 60
        /\ Resolved(c.reply)
        /\ "encrypted" \in DOMAIN c.reply.resolved.data
        /\ Returned(c.outcome)

----------------------------------------------------------------------------
(* C13 *)

\* the failure offers no text that is not empty: neither the body's error, nor
\* the body's message, nor a message of its own
OffersNoText(failure) ==
    /\ "response" \in DOMAIN failure =>
           /\ BodyField(failure, "error") \subseteq {""}
           /\ BodyField(failure, "message") \subseteq {""}
    /\ Prop(failure, "message") \subseteq {""}

C13_Of(c) ==
    "rejected" \in DOMAIN c.reply =>
        LET failure == c.reply.rejected
            thrown == c.outcome.thrown
        IN  /\ Thrown(c.outcome)
            /\ IsKeyClaimError(thrown)
            /\ "response" \in DOMAIN failure =>
                   /\ Prop(thrown, "statusCode") = {failure.response.status}
                   /\ Prop(thrown, "code") = BodyField(failure, "error")
                   /\ OffersNoText(failure) => thrown.message = "Failed to create challenge"
            /\ ("response" \notin DOMAIN failure /\ "request" \in DOMAIN failure) =>
                   /\ Prop(thrown, "statusCode") = {}
                   /\ Prop(thrown, "code") = {"network_error"}
            /\ ("response" \notin DOMAIN failure /\ "request" \notin DOMAIN failure) =>
                   /\ Prop(thrown, "statusCode") = {}
                   /\ Prop(thrown, "code") = {"unknown_error"}
                   /\ OffersNoText(failure) => thrown.message = "Failed to create challenge"

\* C13: every failure of createChallenge's remote call is thrown as a
\* KeyClaimError and never returned as a value, also when the error payload has
\* a valid field; the error is classified by the tier of the failure (server
\* response: statusCode and the body's error as code; request without response:
\* network_error; neither: unknown_error), and its message is "Failed to create
\* challenge" when the failure offers no text of its own.
C13_CreateFailureThrown ==
    \A p \in Procs : \A c \in CreateChallengeCalls(p) : C13_Of(c)

\* createChallenge has thrown on a failure whose payload has a valid field and
\* no text
C13_Witness ==
    \E p \in Procs : \E c \in CreateChallengeCalls(p) :
        /\ Done(p, "createChallenge")
        /\ PayloadHas(c.reply, "valid")
        /\ OffersNoText(c.reply.rejected)
        /\ Thrown(c.outcome)
        /\ c.outcome.thrown.message = "Failed to create challenge"

----------------------------------------------------------------------------
(* C14 *)

\* the digest the custom method is to return for a provided customData
CustomDigest(challenge, cd) ==
    IF "str" \in DOMAIN cd
    THEN Sha256Hex(challenge \o <<":">> \o cd.str)
    ELSE Sha256Hex(challenge \o <<":">> \o JsonStringify(cd.obj))

\* C14 as stated: generateResponse with method custom throws the "Custom data
\* is required" error if and only if customData is not provided; every provided
\* customData, the empty string included, yields the SHA-256 digest of
\* challenge + ":" + customData (a string) or challenge + ":" + its JSON
\* serialization (a structured value).
C14_AsStated ==
    \A p \in Procs :
        (Done(p, "generateResponse") /\ MethodOf(args[p]) = "custom") =>
            IF "customData" \in DOMAIN args[p]
            THEN result[p] = Return(CustomDigest(args[p].challenge, args[p].customData))
            ELSE result[p] = Throw([name |-> "KeyClaimError",
                                    message |-> "Custom data is required for custom method"])

----------------------------------------------------------------------------
(* C15 *)

KnownMethods == {"echo", "hmac", "hash", "custom"}

\* C15: generateResponse with a method outside echo, hmac, hash, custom throws
\* a KeyClaimError whose message is "Unknown response method: " followed by the
\* method as given, returns no response and issues no request; the error
\* differs from the one thrown for missing custom data.
C15_UnknownMethodThrown ==
    \A p \in Procs :
        (Done(p, "generateResponse") /\ MethodOf(args[p]) \notin KnownMethods) =>
            /\ result[p] = Throw([name |-> "KeyClaimError",
                                  message |-> "Unknown response method: " \o args[p].method])
            /\ result[p].thrown.message # "Custom data is required for custom method"
            /\ requests[p] = <<>>
            /\ replies[p] = <<>>

\* generateResponse has thrown for the method HMAC, which differs from hmac by
\* case only
C15_Witness ==
    \E p \in Procs :
        /\ Done(p, "generateResponse")
        /\ Prop(args[p], "method") = {"HMAC"}
        /\ Thrown(result[p])
        /\ result[p].thrown.message = "Unknown response method: HMAC"

----------------------------------------------------------------------------
(* C16 *)

\* the reference derivation of the response for the three methods without
\* custom data
ReferenceResponse(challenge, method, secret) ==
    CASE method = "echo" -> challenge
      [] method = "hmac" -> HmacSha256Hex(secret, challenge)
      [] method = "hash" -> Sha256Hex(challenge \o secret)

\* C16: generateResponse returns the challenge unchanged for echo, the
\* HMAC-SHA256 hex digest of the challenge keyed by the client's secret for
\* hmac, and the SHA-256 hex digest of the challenge followed by the secret for
\* hash; and two calls on the same client with the same challenge, method and
\* customData give the same outcome.
C16_ReferenceAndDeterministic ==
    /\ \A p \in Procs :
           (Done(p, "generateResponse") /\ MethodOf(args[p]) \in {"echo", "hmac", "hash"}) =>
               result[p] = Return(ReferenceResponse(args[p].challenge, MethodOf(args[p]),
                                                    client.secret))
    /\ \A p, q \in Procs :
           (Done(p, "generateResponse") /\ Done(q, "generateResponse")
                /\ args[p].challenge = args[q].challenge
                /\ MethodOf(args[p]) = MethodOf(args[q])
                /\ Prop(args[p], "customData") = Prop(args[q], "customData")) =>
               result[p] = result[q]

\* two calls with the hash method and the same two-character challenge have
\* returned, on a client whose secret differs from the challenge
C16_Witness ==
    \E p, q \in Procs :
        /\ p # q
        /\ Done(p, "generateResponse") /\ Done(q, "generateResponse")
        /\ args[p] = args[q]
        /\ Prop(args[p], "method") = {"hash"}
        /\ Len(args[p].challenge) = 2
        /\ client.secret = <<"k", "c", "_">>
        /\ Returned(result[p])

----------------------------------------------------------------------------
(* C17 *)

\* the reply of the validate endpoint carries a verdict that is not positive: a
\* success payload whose valid is false, or an error payload that has a valid
\* field
NegativeVerdict(reply) ==
    \/ Resolved(reply) /\ reply.resolved.data.valid = FALSE
    \/ PayloadHas(reply, "valid")

\* C17: when validate's create step and generation have succeeded and the
\* reply to its validate request is a success payload with valid = false or an
\* error payload that has a valid field, validate returns an outcome whose
\* valid is false and does not throw.
C17_SemanticFailureReturned ==
    \A p \in Procs :
        (Done(p, "validate") /\ Len(replies[p]) = 2 /\ NegativeVerdict(replies[p][2])) =>
            /\ Returned(steps[p][1].outcome)
            /\ Returned(steps[p][2].outcome)
            /\ Returned(result[p])
            /\ result[p].returned.valid = FALSE

\* validate has returned on an error reply with status 400 whose payload says
\* valid: true
C17_Witness ==
    \E p \in Procs :
        /\ Done(p, "validate")
        /\ Len(replies[p]) = 2
        /\ PayloadHas(replies[p][2], "valid")
        /\ replies[p][2].rejected.response.data.obj.valid = TRUE
        /\ replies[p][2].rejected.response.status = 400
        /\ Returned(result[p])
        /\ result[p].returned.valid = FALSE

----------------------------------------------------------------------------
(* C18 *)

\* what a validate invocation with arguments a has requested and settled with
\* when it runs alone and the transport has answered with rs, written out step
\* by step: [requests |-> ..., result |-> ...]
ValidateAlone(this, a, rs) ==
    LET first == validateCreateRequest(a)
    IN  IF rs = <<>> THEN [requests |-> <<first>>, result |-> NoOutcome]
        ELSE LET created == createChallengeSettle(rs[1])
             IN  IF Thrown(created)
                 THEN [requests |-> <<first>>,
                       result |-> Throw(validateCatch(created.thrown))]
                 ELSE LET own == rs[1].resolved.data.challenge
                          response == generateResponse(this, own, Prop(a, "method"),
                                                       Prop(a, "customData"))
                      IN  IF Thrown(response)
                          THEN [requests |-> <<first>>,
                                result |-> Throw(validateCatch(response.thrown))]
                          ELSE LET second == [url |-> UrlValidate,
                                              data |-> [challenge |-> own,
                                                        response |-> response.returned]]
                               IN  [requests |-> <<first, second>>,
                                    result |-> IF Len(rs) = 1 THEN NoOutcome
                                               ELSE validateOnValidateReply(rs[2]).settle]

\* the same for createChallenge and validateChallenge
RanAlone(this, name, a, rs) ==
    CASE name = "createChallenge" ->
             [requests |-> <<createChallengeRequest(a)>>,
              result |-> IF rs = <<>> THEN NoOutcome ELSE createChallengeSettle(rs[1])]
      [] name = "validateChallenge" ->
             [requests |-> <<validateChallengeRequest(a)>>,
              result |-> IF rs = <<>> THEN NoOutcome ELSE validateChallengeSettle(rs[1])]
      [] name = "validate" -> ValidateAlone(this, a, rs)

\* C18: under every interleaving of createChallenge, validateChallenge and
\* validate invocations in flight on one client, the requests and the result of
\* each invocation are those it has when it runs alone with the same arguments
\* and the same transport replies; a validate invocation submits the challenge
\* of the reply to its own create request; the client's key and secret stay as
\* constructed.
C18_NoInterference ==
    \A p \in Procs :
        /\ client.apiKey = <<"k", "c", "_">> /\ client.secret = <<"a">>
        /\ op[p] # "none" =>
               LET alone == RanAlone(client, op[p], args[p], replies[p])
               IN  /\ requests[p] = alone.requests
                   /\ result[p] = alone.result
        /\ (op[p] = "validate" /\ Len(requests[p]) = 2) =>
               /\ "resolved" \in DOMAIN replies[p][1]
               /\ requests[p][2].data.challenge = replies[p][1].resolved.data.challenge

\* two validate invocations are in flight, were issued different challenges and
\* have both posted their validate request
C18_Witness ==
    \E p, q \in Procs :
        /\ p # q
        /\ op[p] = "validate" /\ op[q] = "validate"
        /\ Len(requests[p]) = 2 /\ Len(requests[q]) = 2
        /\ pc[p] = "validate" /\ pc[q] = "validate"
        /\ replies[p][1].resolved.data.challenge # replies[q][1].resolved.data.challenge
        /\ requests[p][2].data.challenge # requests[q][2].data.challenge

----------------------------------------------------------------------------
(* C19 *)

\* the number of requests slot p's invocation may have issued so far, and has
\* issued once it has settled
RequestsWithinCount(p) ==
    /\ op[p] = "generateResponse" => requests[p] = <<>>
    /\ op[p] \in {"createChallenge", "validateChallenge"} => Len(requests[p]) = 1
    /\ op[p] = "validate" => Len(requests[p]) \in {1, 2}
    /\ Len(replies[p]) <= Len(requests[p])
    /\ pc[p] = "done" => Len(replies[p]) = Len(requests[p])

\* once slot p's invocation has returned or thrown, nothing more is requested
\* or received for it
QuietOnceSettled(p) ==
    pc[p] = "done" =>
        \/ requests'[p] = requests[p] /\ replies'[p] = replies[p] /\ result'[p] = result[p]
        \/ pc'[p] = "idle" /\ requests'[p] = <<>>

\* C19: every createChallenge call and every validateChallenge call issues
\* exactly one request whatever its outcome, every validate call one or two,
\* generateResponse none; every request is answered at most once; and after an
\* invocation has returned or thrown no request is issued for it.
C19_NoRetryNoBackgroundWork ==
    /\ [](\A p \in Procs : RequestsWithinCount(p))
    /\ [][\A p \in Procs : QuietOnceSettled(p)]_vars

\* createChallenge has thrown on a network failure after one request
C19_Witness ==
    \E p \in Procs :
        /\ Done(p, "createChallenge")
        /\ "rejected" \in DOMAIN replies[p][1]
        /\ "request" \in DOMAIN replies[p][1].rejected
        /\ Thrown(result[p])
        /\ Len(requests[p]) = 1

----------------------------------------------------------------------------
(* C20 *)

\* C20: validate called with no arguments posts a create request with ttl 30,
\* submits the HMAC of the challenge it was issued under the client's secret,
\* and requests and settles exactly as validate('hmac', 30) does on the same
\* replies; generateResponse called with a challenge only returns what
\* generateResponse(challenge, 'hmac') returns.
C20_Defaults ==
    \A p \in Procs :
        /\ (op[p] = "validate" /\ args[p] = EmptyObj) =>
               /\ requests[p][1] = [url |-> "/challenge/create", data |-> [ttl |-> 30]]
               /\ Len(requests[p]) = 2 =>
                      LET issued == replies[p][1].resolved.data.challenge
                      IN  requests[p][2].data =
                              [challenge |-> issued,
                               response |-> HmacSha256Hex(client.secret, issued)]
               /\ LET explicit == ValidateAlone(client, [method |-> "hmac", ttl |-> 30],
                                                replies[p])
                  IN  requests[p] = explicit.requests /\ result[p] = explicit.result
        /\ (Done(p, "generateResponse") /\ "method" \notin DOMAIN args[p]) =>
               /\ result[p] = Return(HmacSha256Hex(client.secret, args[p].challenge))
               /\ result[p] = generateResponse(client, args[p].challenge, {"hmac"}, {})

\* validate called with no arguments has posted its validate request
C20_Witness ==
    \E p \in Procs :
        /\ op[p] = "validate" /\ args[p] = EmptyObj
        /\ Len(requests[p]) = 2
        /\ requests[p][1].data.ttl = 30
        /\ requests[p][2].data.challenge = <<"a", "a">>

----------------------------------------------------------------------------
(* C21 *)

\* C21 as stated, for the failed call c
C21_StatedOf(c) ==
    ("rejected" \in DOMAIN c.reply /\ Thrown(c.outcome) /\ IsKeyClaimError(c.outcome.thrown)) =>
        LET failure == c.reply.rejected
            thrown == c.outcome.thrown
            withResponse == "response" \in DOMAIN failure
            withRequest == "request" \in DOMAIN failure
        IN  /\ (withResponse /\ withRequest) =>
                   /\ Prop(thrown, "statusCode") = {failure.response.status}
                   /\ Prop(thrown, "code") = BodyField(failure, "error")
                   /\ Prop(thrown, "code") # {"network_error"}
            /\ Prop(thrown, "code") = {"network_error"} => (withRequest /\ ~withResponse)
            /\ Prop(thrown, "code") = {"unknown_error"} => (~withRequest /\ ~withResponse)

\* C21 as stated: a failure with a response and a request is thrown with the
\* response's status as statusCode and the body's error as code, never with
\* code network_error; the code network_error is produced only when the failure
\* has a request and no response, and unknown_error only when it has neither.
C21_AsStated ==
    \A p \in Procs :
        /\ \A c \in CreateChallengeCalls(p) : C21_StatedOf(c)
        /\ \A c \in ValidateChallengeCalls(p) : C21_StatedOf(c)

\* the thrown error is of the second (third) case: the code is the one given
\* and there is no statusCode
OfCase(thrown, code) ==
    Prop(thrown, "code") = {code} /\ Prop(thrown, "statusCode") = {}

C21_AmendedOf(c) ==
    ("rejected" \in DOMAIN c.reply /\ Thrown(c.outcome) /\ IsKeyClaimError(c.outcome.thrown)) =>
        LET failure == c.reply.rejected
            thrown == c.outcome.thrown
            withResponse == "response" \in DOMAIN failure
            withRequest == "request" \in DOMAIN failure
        IN  /\ withResponse <=>
                   /\ Prop(thrown, "statusCode") # {}
                   /\ Prop(thrown, "statusCode") = {failure.response.status}
                   /\ Prop(thrown, "code") = BodyField(failure, "error")
            /\ OfCase(thrown, "network_error") <=> (withRequest /\ ~withResponse)
            /\ OfCase(thrown, "unknown_error") <=> (~withRequest /\ ~withResponse)

\* C21 amended: the three cases exclude each other and apply in order. A
\* failure with a response, with or without a request, is thrown with the
\* response's status as statusCode and the body's error, whatever its text, as
\* code; an error with code network_error and no statusCode is thrown exactly
\* when the failure has a request and no response, and one with code
\* unknown_error and no statusCode exactly when it has neither.
C21_CasesInPriorityOrder ==
    \A p \in Procs :
        /\ \A c \in CreateChallengeCalls(p) : C21_AmendedOf(c)
        /\ \A c \in ValidateChallengeCalls(p) : C21_AmendedOf(c)

\* createChallenge has thrown on a failure that has a request and a response
\* with status 500 whose body's error is the text network_error
C21_Witness ==
    \E p \in Procs : \E c \in CreateChallengeCalls(p) :
        /\ Done(p, "createChallenge")
        /\ FailedWith(c, TRUE, TRUE)
        /\ c.reply.rejected.response.status = 500
        /\ BodyField(c.reply.rejected, "error") = {"network_error"}
        /\ Prop(c.outcome.thrown, "statusCode") = {500}
        /\ Prop(c.outcome.thrown, "code") = {"network_error"}

----------------------------------------------------------------------------
(* C22 *)

\* the final states of a validate invocation
ResolvedValid(p) == Returned(result[p]) /\ result[p].returned.valid = TRUE
ResolvedInvalid(p) == Returned(result[p]) /\ result[p].returned.valid = FALSE
Errored(p) == Thrown(result[p]) /\ IsKeyClaimError(result[p].thrown)

\* slot p's validate invocation is in exactly one final state
Final(p) ==
    /\ Done(p, "validate")
    /\ Cardinality({f \in {"valid", "invalid", "errored"} :
                       \/ f = "valid" /\ ResolvedValid(p)
                       \/ f = "invalid" /\ ResolvedInvalid(p)
                       \/ f = "errored" /\ Errored(p)}) = 1

\* a slot without an invocation holds nothing of an earlier one
Fresh(p) ==
    pc[p] = "idle" =>
        /\ op[p] = "none" /\ args[p] = EmptyObj
        /\ requests[p] = <<>> /\ replies[p] = <<>> /\ steps[p] = <<>>
        /\ result[p] = NoOutcome

\* a settled invocation keeps its final state until the caller has taken it
StaysFinal(p) ==
    Done(p, "validate") =>
        \/ pc'[p] = "done" /\ result'[p] = result[p]
        \/ pc'[p] = "idle" /\ result'[p] = NoOutcome

\* C22: when the transport answers or fails every request, every validate
\* invocation that has started settles in exactly one of the final states
\* resolved-valid, resolved-invalid, errored, and stays in it; every invocation
\* starts from a slot that holds nothing of an earlier one, and its outcome is
\* the one its own arguments and replies give, whatever the invocations before
\* or beside it came to.
C22_ValidateSettlesOnce ==
    /\ \A p \in Procs : (op[p] = "validate" /\ pc[p] # "done") ~> Final(p)
    /\ [](\A p \in Procs :
              /\ Done(p, "validate") => Final(p)
              /\ Done(p, "validate") =>
                     result[p] = ValidateAlone(client, args[p], replies[p]).result
              /\ Fresh(p))
    /\ [][\A p \in Procs : StaysFinal(p)]_vars

\* one validate invocation has errored on its create step and another, with
\* the same arguments, has resolved valid
C22_Witness ==
    \E p, q \in Procs :
        /\ p # q
        /\ Done(p, "validate") /\ Done(q, "validate")
        /\ args[p] = args[q]
        /\ Errored(p) /\ Len(replies[p]) = 1
        /\ ResolvedValid(q) /\ Len(replies[q]) = 2

----------------------------------------------------------------------------
(* C23 *)

\* the fields of a constructed client
ClientFields == {"apiKey", "baseUrl", "secret", "axiosInstance"}

\* this step is a call of generateResponse in slot p
GenerateStep(p) == pc[p] = "idle" /\ op'[p] = "generateResponse"

\* everything but what slot p's invocation was given and what it returned or
\* threw is as before
NothingElseChanged(p) ==
    /\ UNCHANGED <<client, ctor, requests, replies, steps>>
    /\ \A q \in Procs \ {p} :
           /\ pc'[q] = pc[q] /\ op'[q] = op[q]
           /\ args'[q] = args[q] /\ result'[q] = result[q]

\* C23: after construction no step of createChallenge, generateResponse,
\* validateChallenge or validate, succeeding or failing, changes the client:
\* its apiKey, secret, base endpoint and transport stay as constructed and it
\* has no other field, so no challenge or response is kept on it; a call of
\* generateResponse changes nothing but its own outcome, issuing no request;
\* and once the caller has taken an invocation's result nothing of the
\* invocation is left.
C23_ClientUnchanged ==
    /\ [](DOMAIN client = ClientFields)
    /\ [](\A p \in Procs : Fresh(p))
    /\ [][client' = client]_vars
    /\ [][\A p \in Procs : GenerateStep(p) => NothingElseChanged(p)]_vars

\* validate has thrown after its validate request failed, on a client that
\* holds its own secret
C23_Witness ==
    \E p \in Procs :
        /\ Done(p, "validate")
        /\ Len(replies[p]) = 2
        /\ Thrown(result[p])
        /\ client.secret = <<"a">>
        /\ DOMAIN client = ClientFields

----------------------------------------------------------------------------
(* C24 *)

\* the response to the challenge under the secret, for the method and the
\* custom data validate was called with
ExpectedResponse(challenge, a, secret) ==
    IF MethodOf(a) = "custom"
    THEN CustomDigest(challenge, a.customData)
    ELSE ReferenceResponse(challenge, MethodOf(a), secret)

\* C24: the validate request a validate invocation sends goes to the validate
\* endpoint and carries exactly two fields: the challenge of the reply to its
\* own create request, and the response generateResponse gives for that
\* challenge, the invocation's method and customData under the client's secret;
\* it carries no decryptedChallenge, also when the create reply is marked
\* encrypted.
C24_ValidateRequestContents ==
    \A p \in Procs :
        (op[p] = "validate" /\ Len(requests[p]) = 2) =>
            LET issued == replies[p][1].resolved.data.challenge
                sent == requests[p][2]
            IN  /\ sent.url = "/challenge/validate"
                /\ DOMAIN sent.data = {"challenge", "response"}
                /\ sent.data.challenge = issued
                /\ sent.data.response = ExpectedResponse(issued, args[p], client.secret)
                /\ Return(sent.data.response) =
                       generateResponse(client, issued, Prop(args[p], "method"),
                                        Prop(args[p], "customData"))

\* validate with the custom method has sent its validate request after a
\* create reply marked encrypted
C24_Witness ==
    \E p \in Procs :
        /\ op[p] = "validate" /\ Len(requests[p]) = 2
        /\ Prop(args[p], "method") = {"custom"}
        /\ "encrypted" \in DOMAIN replies[p][1].resolved.data
        /\ replies[p][1].resolved.data.challenge = <<"a", "a">>
        /\ requests[p][2].data.challenge = <<"a", "a">>

====
